---- MODULE Spec2Model ----
(***************************************************************************)
(* Model of the smart meeting scheduler:                                   *)
(*   - pkg/algorithm/scheduler.go : slot enumeration, scoring, selection   *)
(*   - internal/service           : request validation, Schedule           *)
(*   - internal/service           : GetUserCalendar                        *)
(*   - pkg/repository             : the tables users and calendar_events   *)
(*                                  and the operations on them             *)
(*   - internal/transport         : the HTTP handlers and their status     *)
(*                                  codes, requests served concurrently    *)
(*                                                                         *)
(* Instants (time.Time) are integers: minutes since the zero time.Time,    *)
(* so the zero instant is 0 and Before/After are < and >.  Scores          *)
(* (float64) are exact rationals <<numerator, denominator>>: every score   *)
(* the model computes has a denominator of a few thousand at most, so two  *)
(* scores that differ as rationals differ as float64 values in the same    *)
(* direction; two scores that are equal as rationals may or may not be     *)
(* equal as float64 values, depending on the order in which the Go map of  *)
(* participants is visited while summing.                                  *)
(***************************************************************************)
EXTENDS Integers, Sequences, FiniteSets, TLC

VARIABLES
    pc,              \* position of the caller; under Spec, of every operation:
                     \* idle, the repository call it makes next, or the
                     \* operation it has returned from
    now,             \* the instant time.Now() returns
    req,             \* the request of the current call (under Spec: of every operation)
    allEvents,       \* map[string][]domain.CalendarEvent handed to the search
    availableSlots,  \* what findAvailableSlots returned in the current call
    slot,            \* what FindOptimalSlot returned (Nil or a TimeSlot)
    slotAgain,       \* what a second FindOptimalSlot call on the same input returned
    err,             \* the error returned by the last operation (NoError for nil)
    store,           \* the rows of table calendar_events
    users,           \* the IDs of the rows of table users
    resp,            \* what Schedule or GetUserCalendar returned (Nil on error)
    calls,           \* the repository calls an operation has made, in order
    ncalls,          \* how many operations have started
    status,          \* HTTP status code of an operation's response (0: none written)
    scores           \* the component scores calculateSlotScore computed last

vars ==
    <<pc, now, req, allEvents, availableSlots, slot, slotAgain, err, store, users, resp,
      calls, ncalls, status, scores>>

----------------------------------------------------------------------------
(* Bounds of the model *)

\* busy intervals per participant in the mappings the search is tried on
MaxEvents == 1

----------------------------------------------------------------------------
(* Instants and durations, in minutes *)

\* time.Time.Hour(): the hour of the day of an instant
HourOf(t) == (t \div 60) % 24

\* the instant hh:mm of the model's working day (day 2 after the zero instant)
At(hh, mm) == 2 * (24 * 60) + hh * 60 + mm

\* whether year y (1, 2, ...) of the proleptic Gregorian calendar is a leap year
IsLeapYear(y) == y % 4 = 0 /\ (y % 100 # 0 \/ y % 400 = 0)

\* the days from 1 January of year 1 to 1 January of year y
DaysBeforeYear(y) ==
    365 * (y - 1) + ((y - 1) \div 4) - ((y - 1) \div 100) + ((y - 1) \div 400)

\* the days from 1 January of year y to the first day of its month m
DaysBeforeMonth(m, y) ==
    <<0, 31, 59, 90, 120, 151, 181, 212, 243, 273, 304, 334>>[m]
        + (IF m > 2 /\ IsLeapYear(y) THEN 1 ELSE 0)

\* time.Date(y, m, d, hh, mm, 0, 0, time.UTC)
OnDate(y, m, d, hh, mm) ==
    (DaysBeforeYear(y) + DaysBeforeMonth(m, y) + (d - 1)) * (24 * 60) + hh * 60 + mm

\* time.Time.Year() of the instant that lies day days after the zero instant
YearOfDay(day) ==
    CHOOSE y \in (day \div 366) + 1 .. (day \div 365) + 1 :
        DaysBeforeYear(y) <= day /\ day < DaysBeforeYear(y + 1)

\* time.Time.Month() of the day that lies yday days after 1 January of year y
MonthOfDay(yday, y) ==
    CHOOSE m \in 1 .. 12 :
        /\ DaysBeforeMonth(m, y) <= yday
        /\ m = 12 \/ yday < DaysBeforeMonth(m + 1, y)

\* time.Time.IsZero()
IsZero(t) == t = 0

\* a nil pointer (no slot, no response)
Nil == [nil |-> TRUE]

----------------------------------------------------------------------------
(* float64 arithmetic on exact rationals <<n, d>>, d > 0, in lowest terms *)

RECURSIVE GCD(_, _)
GCD(a, b) == IF b = 0 THEN a ELSE GCD(b, a % b)

Abs(x) == IF x < 0 THEN -x ELSE x

Rat(n, d) == LET g == GCD(Abs(n), d) IN <<n \div g, d \div g>>

RAdd(a, b) == Rat(a[1] * b[2] + b[1] * a[2], a[2] * b[2])

RMul(a, b) == Rat(a[1] * b[1], a[2] * b[2])

RDivInt(a, c) == Rat(a[1], a[2] * c)

\* a < b
RLess(a, b) ==
    LET g == GCD(a[2], b[2])
    IN  a[1] * (b[2] \div g) < b[1] * (a[2] \div g)

----------------------------------------------------------------------------
(* pkg/algorithm/scheduler.go *)

workingHoursWeight == Rat(10, 10)
earlySlotWeight == Rat(8, 10)
gapMinimizationWeight == Rat(6, 10)
bufferTimeWeight == Rat(4, 10)

desiredBufferTime == 15

workDayStart == 9

workDayEnd == 17

\* the enumeration step: current.Add(15 * time.Minute)
slotStep == 15

\* for _, event := range userEvents: the events of a participant as a set of indices
EventIndices(userEvents) == 1 .. Len(userEvents)

\* isSlotAvailable with an overlap test that lets back-to-back intervals pass
isSlotAvailableTouching(start, end, events) ==
    \A u \in DOMAIN events :
        \A i \in EventIndices(events[u]) :
            LET event == events[u][i]
            IN  (end <= event.StartTime) \/ (start >= event.EndTime)

\* isSlotAvailable: no event of any participant overlaps or touches [start, end]
isSlotAvailable(start, end, events) ==
    \A u \in DOMAIN events :
        \A i \in EventIndices(events[u]) :
            LET event == events[u][i]
            IN  (end < event.StartTime) \/ (start > event.EndTime)

\* the loop of findAvailableSlots, admitting a slot that ends on the window's end
RECURSIVE slotsFromInclusive(_, _, _)
slotsFromInclusive(current, r, events) ==
    IF ~(current < r.TimeRange.End)
    THEN <<>>
    ELSE LET slotEnd == current + r.DurationMinutes
         IN  (IF slotEnd <= r.TimeRange.End /\ isSlotAvailable(current, slotEnd, events)
              THEN << [Start |-> current, End |-> slotEnd] >>
              ELSE <<>>)
             \o slotsFromInclusive(current + slotStep, r, events)

\* the loop of findAvailableSlots, had it stopped at the first candidate that
\* is not admitted
RECURSIVE slotsFromUntilBusy(_, _, _)
slotsFromUntilBusy(current, r, events) ==
    IF ~(current < r.TimeRange.End)
    THEN <<>>
    ELSE LET slotEnd == current + r.DurationMinutes
         IN  IF slotEnd < r.TimeRange.End /\ isSlotAvailable(current, slotEnd, events)
             THEN << [Start |-> current, End |-> slotEnd] >>
                  \o slotsFromUntilBusy(current + slotStep, r, events)
             ELSE <<>>

\* the loop of findAvailableSlots from instant current on
RECURSIVE slotsFrom(_, _, _)
slotsFrom(current, r, events) ==
    IF ~(current < r.TimeRange.End)
    THEN <<>>
    ELSE LET slotEnd == current + r.DurationMinutes
         IN  (IF slotEnd < r.TimeRange.End /\ isSlotAvailable(current, slotEnd, events)
              THEN << [Start |-> current, End |-> slotEnd] >>
              ELSE <<>>)
             \o slotsFrom(current + slotStep, r, events)

findAvailableSlots(r, events) == slotsFrom(r.TimeRange.Start, r, events)

\* workingHoursScore counting the hour the working day ends at as a working hour
workingHoursScoreInclusiveEnd(s) ==
    LET hour == HourOf(s.Start)
    IN  IF hour >= workDayStart /\ hour <= workDayEnd
        THEN Rat(1, 1)
        ELSE IF hour >= workDayStart - 1 /\ hour < workDayStart
             THEN Rat(1, 2)
             ELSE Rat(0, 1)

workingHoursScore(s) ==
    LET hour == HourOf(s.Start)
    IN  IF hour >= workDayStart /\ hour < workDayEnd
        THEN Rat(1, 1)
        ELSE IF (hour >= workDayStart - 1 /\ hour < workDayStart)
                \/ (hour >= workDayEnd /\ hour < workDayEnd + 1)
             THEN Rat(1, 2)
             ELSE Rat(0, 1)

earlySlotScore(s) ==
    LET hour == HourOf(s.Start)
    IN  IF hour >= workDayStart /\ hour <= workDayEnd
        THEN Rat((workDayEnd - workDayStart) - (hour - workDayStart), workDayEnd - workDayStart)
        ELSE Rat(0, 1)

\* the factor of a gap, a gap of exactly 60 minutes counted as large
gapFactorLargeFromSixty(gap) ==
    IF gap < desiredBufferTime THEN Rat(1, 2)
    ELSE IF gap >= 60 THEN Rat(4, 5)
    ELSE Rat(1, 1)

\* the factor one gap contributes to a participant's gap score
gapFactor(gap) ==
    IF gap < desiredBufferTime THEN Rat(1, 2)
    ELSE IF gap > 60 THEN Rat(4, 5)
    ELSE Rat(1, 1)

\* the factor of a buffer, a short buffer penalised by one half as a short
\* gap is in gapMinimizationScore
bufferFactorHalved(gap) ==
    IF gap < desiredBufferTime THEN Rat(1, 2) ELSE Rat(1, 1)

\* the factor one gap contributes to a participant's buffer score
bufferFactor(gap) ==
    IF gap < desiredBufferTime THEN Rat(gap, desiredBufferTime) ELSE Rat(1, 1)

\* the inner loop of gapMinimizationScore over the events i..Len of one participant
RECURSIVE userGapScore(_, _, _, _)
userGapScore(s, userEvents, i, score) ==
    IF i > Len(userEvents)
    THEN score
    ELSE LET event == userEvents[i]
             s1 == IF event.EndTime < s.Start
                   THEN RMul(score, gapFactor((s.Start - event.EndTime)))
                   ELSE score
             s2 == IF event.StartTime > s.End
                   THEN RMul(s1, gapFactor((event.StartTime - s.End)))
                   ELSE s1
         IN  userGapScore(s, userEvents, i + 1, s2)

\* the inner loop of bufferTimeScore over the events i..Len of one participant
RECURSIVE userBufferScore(_, _, _, _)
userBufferScore(s, userEvents, i, score) ==
    IF i > Len(userEvents)
    THEN score
    ELSE LET event == userEvents[i]
             s1 == IF event.EndTime < s.Start
                   THEN RMul(score, bufferFactor((s.Start - event.EndTime)))
                   ELSE score
             s2 == IF event.StartTime > s.End
                   THEN RMul(s1, bufferFactor((event.StartTime - s.End)))
                   ELSE s1
         IN  userBufferScore(s, userEvents, i + 1, s2)

\* totalScore over the participants in U (the sum of rationals does not depend
\* on the order in which the map is visited)
RECURSIVE totalGapScore(_, _, _)
totalGapScore(s, events, U) ==
    IF U = {}
    THEN Rat(0, 1)
    ELSE LET u == CHOOSE x \in U : TRUE
         IN  RAdd(userGapScore(s, events[u], 1, Rat(1, 1)),
                  totalGapScore(s, events, U \ {u}))

RECURSIVE totalBufferScore(_, _, _)
totalBufferScore(s, events, U) ==
    IF U = {}
    THEN Rat(0, 1)
    ELSE LET u == CHOOSE x \in U : TRUE
         IN  RAdd(userBufferScore(s, events[u], 1, Rat(1, 1)),
                  totalBufferScore(s, events, U \ {u}))

gapMinimizationScore(s, events) ==
    LET count == Cardinality(DOMAIN events)
    IN  IF count = 0
        THEN Rat(1, 1)
        ELSE RDivInt(totalGapScore(s, events, DOMAIN events), count)

bufferTimeScore(s, events) ==
    LET count == Cardinality(DOMAIN events)
    IN  IF count = 0
        THEN Rat(1, 1)
        ELSE RDivInt(totalBufferScore(s, events, DOMAIN events), count)

calculateSlotScore(s, events) ==
    RAdd(RAdd(RAdd(RMul(workingHoursScore(s), workingHoursWeight),
                   RMul(earlySlotScore(s), earlySlotWeight)),
              RMul(gapMinimizationScore(s, events), gapMinimizationWeight)),
         RMul(bufferTimeScore(s, events), bufferTimeWeight))

scoreSlots(slots, events) ==
    [i \in 1 .. Len(slots) |->
        [Start |-> slots[i].Start, End |-> slots[i].End,
         Score |-> calculateSlotScore(slots[i], events)]]

\* less of the sort.Slice call with the comparison reversed (lowest score first)
sortLessAscending(a, b) == RLess(a.Score, b.Score)

\* less of the sort.Slice call: scoredSlots[i].Score > scoredSlots[j].Score
sortLess(a, b) == RLess(b.Score, a.Score)

\* sort.Slice is not stable, and scores that are equal as rationals may come
\* out of the float64 sums in either order: the element at index 0 after the
\* sort is any element that no other element is sorted before.
sortedFirst(scoredSlots) ==
    { scoredSlots[i] : i \in { k \in 1 .. Len(scoredSlots) :
          \A j \in 1 .. Len(scoredSlots) : ~sortLess(scoredSlots[j], scoredSlots[k]) } }

\* FindOptimalSlot giving up when at most one slot is available
FindOptimalSlotNeedsTwo(r, events) ==
    LET slots == findAvailableSlots(r, events)
    IN  IF Len(slots) <= 1
        THEN {Nil}
        ELSE sortedFirst(scoreSlots(slots, events))

\* FindOptimalSlot: the set of values the call may return
FindOptimalSlot(r, events) ==
    LET slots == findAvailableSlots(r, events)
    IN  IF Len(slots) = 0
        THEN {Nil}
        ELSE sortedFirst(scoreSlots(slots, events))

----------------------------------------------------------------------------
(* internal/service: errors and request validation *)

NoError == "nil"
ErrInvalidRequest == "invalid request parameters"
ErrNoAvailableSlot == "no available time slot found for all participants"
ErrUserNotFound == "user not found"
ErrInternalError == "internal server error"

ErrNoParticipants == "at least one participant is required"
ErrEmptyParticipantID == "participant ID cannot be empty"
ErrDuplicateParticipant == "duplicate participant IDs are not allowed"
ErrDurationNotPositive == "duration must be greater than 0 minutes"
ErrDurationTooLong == "duration cannot exceed 8 hours (480 minutes)"
ErrStartRequired == "start time is required"
ErrEndRequired == "end time is required"
ErrStartAfterEnd == "start time must be before end time"
ErrStartInPast == "start time cannot be in the past. Please enter a valid future start date."
ErrEndTooFar == "end time cannot be more than 1 year in the future"
ErrDurationDoesNotFit == "duration does not fit within the specified time range"

ValidationErrors ==
    { ErrNoParticipants, ErrEmptyParticipantID, ErrDuplicateParticipant,
      ErrDurationNotPositive, ErrDurationTooLong, ErrStartRequired, ErrEndRequired,
      ErrStartAfterEnd, ErrStartInPast, ErrEndTooFar, ErrDurationDoesNotFit }

\* the longest meeting validateScheduleRequest accepts, in minutes
maxDurationMinutes == 480

\* t.AddDate(1, 0, 0): the same month, day and time of day in the next year,
\* 29 February normalised to 1 March when the next year is not a leap year
AddYear(t) ==
    LET day == t \div (24 * 60)
        y == YearOfDay(day)
        m == MonthOfDay(day - DaysBeforeYear(y), y)
        d == day - DaysBeforeYear(y) - DaysBeforeMonth(m, y)
    IN  (DaysBeforeYear(y + 1) + DaysBeforeMonth(m, y + 1) + d) * (24 * 60)
            + (t % (24 * 60))

\* the participants loop, had it looked for an empty ID in the whole list
\* before looking for a repeated one
RECURSIVE participantsErrorEmptyFirst(_, _, _)
participantsErrorEmptyFirst(ids, i, participantMap) ==
    IF \E k \in i .. Len(ids) : ids[k] = "" THEN ErrEmptyParticipantID
    ELSE IF i > Len(ids) THEN NoError
    ELSE IF ids[i] \in participantMap THEN ErrDuplicateParticipant
    ELSE participantsErrorEmptyFirst(ids, i + 1, participantMap \cup {ids[i]})

\* the participants loop without the check for repeated IDs
RECURSIVE participantsErrorNoDuplicates(_, _, _)
participantsErrorNoDuplicates(ids, i, participantMap) ==
    IF i > Len(ids) THEN NoError
    ELSE IF ids[i] = "" THEN ErrEmptyParticipantID
    ELSE participantsErrorNoDuplicates(ids, i + 1, participantMap \cup {ids[i]})

\* the loop of validateScheduleRequest over ParticipantIDs[i..], participantMap
\* holding the IDs seen so far
RECURSIVE participantsError(_, _, _)
participantsError(ids, i, participantMap) ==
    IF i > Len(ids) THEN NoError
    ELSE IF ids[i] = "" THEN ErrEmptyParticipantID
    ELSE IF ids[i] \in participantMap THEN ErrDuplicateParticipant
    ELSE participantsError(ids, i + 1, participantMap \cup {ids[i]})

\* validateScheduleRequest, with time.Now() = t
validateScheduleRequest(r, t) ==
    IF Len(r.ParticipantIDs) = 0 THEN ErrNoParticipants
    ELSE IF participantsError(r.ParticipantIDs, 1, {}) # NoError
         THEN participantsError(r.ParticipantIDs, 1, {})
    ELSE IF r.DurationMinutes <= 0 THEN ErrDurationNotPositive
    ELSE IF r.DurationMinutes > maxDurationMinutes THEN ErrDurationTooLong
    ELSE IF IsZero(r.TimeRange.Start) THEN ErrStartRequired
    ELSE IF IsZero(r.TimeRange.End) THEN ErrEndRequired
    ELSE IF r.TimeRange.Start > r.TimeRange.End THEN ErrStartAfterEnd
    ELSE IF r.TimeRange.Start < t THEN ErrStartInPast
    ELSE IF r.TimeRange.End > AddYear(t) THEN ErrEndTooFar
    ELSE IF r.TimeRange.Start + r.DurationMinutes > r.TimeRange.End
         THEN ErrDurationDoesNotFit
    ELSE NoError

----------------------------------------------------------------------------
(* Values the operations are tried on *)

\* users of table user (the users of the service tests)
Users == {"user1", "user2"}

\* domain.CalendarEvent (its ID, a fresh UUID, is left out)
Event(title, startTime, endTime, userID) ==
    [Title |-> title, StartTime |-> startTime, EndTime |-> endTime, UserID |-> userID]

\* domain.ScheduleRequest
Request(ids, duration, start, end, title) ==
    [ParticipantIDs |-> ids, DurationMinutes |-> duration,
     TimeRange |-> [Start |-> start, End |-> end], Title |-> title]

EmptyRequest == Request(<<>>, 0, 0, 0, "")

\* sequences over S of length at most n
RECURSIVE SeqsUpTo(_, _)
SeqsUpTo(S, n) ==
    IF n = 0 THEN {<<>>}
    ELSE LET shorter == SeqsUpTo(S, n - 1)
         IN  shorter \cup { Append(q, x) : q \in shorter, x \in S }

\* busy intervals of the search inputs: back to back with the 09:00 and 10:00
\* slots, a short one off the 15 minute grid, and one in the afternoon
BusyIntervals ==
    { Event("", At(9, 0), At(10, 0), ""), Event("", At(10, 0), At(11, 0), ""),
      Event("", At(10, 5), At(10, 20), ""), Event("", At(13, 0), At(14, 0), "") }

\* the mappings FindOptimalSlot is tried on: any set of participants, each with
\* at most MaxEvents busy intervals
SearchMappings ==
    UNION { [U -> SeqsUpTo(BusyIntervals, MaxEvents)] : U \in SUBSET Users }

\* a mapping of four participants, two of them busy in the afternoon: the
\* per-participant scores 0.8, 0.8, 1, 1 add up to different float64 sums in
\* different visiting orders
FourParticipants ==
    [u \in {"user1", "user2", "user3", "user4"} |->
        IF u \in {"user1", "user2"}
        THEN << Event("", At(13, 0), At(14, 0), "") >>
        ELSE <<>>]

\* one participant with a meeting in the morning and one in the afternoon
TwoMeetings ==
    [u \in {"user1"} |->
        << Event("", At(9, 0), At(10, 0), ""), Event("", At(13, 0), At(14, 0), "") >>]

SearchWindows ==
    { <<At(9, 0), At(11, 0)>>, <<At(9, 0), At(17, 0)>>, <<At(6, 0), At(17, 0)>>,
      <<At(8, 10), At(10, 40)>>, <<At(16, 0), At(19, 0)>>, <<At(7, 0), At(9, 0)>> }

SearchDurations == {30, 60}

SearchRequests ==
    { Request(<<"user1", "user2">>, d, w[1], w[2], "") :
        d \in SearchDurations, w \in SearchWindows }

----------------------------------------------------------------------------
(* The search on its own: FindOptimalSlot called twice on one input *)

InitSearch ==
    /\ pc = "call"
    /\ now = At(0, 0)
    /\ req \in SearchRequests
    /\ allEvents \in SearchMappings \cup {FourParticipants}
    /\ availableSlots = <<>>
    /\ slot = Nil
    /\ slotAgain = Nil
    /\ err = NoError
    /\ store = {}
    /\ users = Users
    /\ resp = Nil
    /\ calls = <<>>
    /\ ncalls = 0
    /\ status = 0
    /\ scores = Nil

Search ==
    /\ pc = "call"
    /\ availableSlots' = findAvailableSlots(req, allEvents)
    /\ slot' \in FindOptimalSlot(req, allEvents)
    /\ pc' = "returned"
    /\ UNCHANGED <<now, req, allEvents, slotAgain, err, store, users, resp, calls, ncalls, status, scores>>

SearchAgain ==
    /\ pc = "returned"
    /\ slotAgain' \in FindOptimalSlot(req, allEvents)
    /\ pc' = "again"
    /\ UNCHANGED <<now, req, allEvents, availableSlots, slot, err, store, users, resp, calls, ncalls,
                   status, scores>>

NextSearch == Search \/ SearchAgain

SpecSearch == InitSearch /\ [][NextSearch]_vars

----------------------------------------------------------------------------
(* Scoring on its own: calculateSlotScore called on one slot *)

\* the slots scored: three starts in every hour of the day
ScoreStarts == { At(h, m) : h \in 0 .. 23, m \in {0, 20, 59} }

\* scoreSlots is handed the slots findAvailableSlots has admitted: the slot to
\* score conflicts with no busy interval of the mapping
InitScore ==
    /\ pc = "call"
    /\ now = At(0, 0)
    /\ req = EmptyRequest
    /\ allEvents \in SearchMappings \cup {TwoMeetings}
    /\ availableSlots = <<>>
    /\ \E t \in ScoreStarts, d \in SearchDurations : slot = [Start |-> t, End |-> t + d]
    /\ isSlotAvailable(slot.Start, slot.End, allEvents)
    /\ slotAgain = Nil
    /\ err = NoError
    /\ store = {}
    /\ users = Users
    /\ resp = Nil
    /\ calls = <<>>
    /\ ncalls = 0
    /\ status = 0
    /\ scores = Nil

\* calculateSlotScore on the slot: the four component scores and their
\* weighted sum, which scoreSlots stores in the slot
Score ==
    /\ pc = "call"
    /\ scores' = [workingHours |-> workingHoursScore(slot),
                  earlySlot |-> earlySlotScore(slot),
                  gapMinimization |-> gapMinimizationScore(slot, allEvents),
                  bufferTime |-> bufferTimeScore(slot, allEvents)]
    /\ slot' = [Start |-> slot.Start, End |-> slot.End,
                Score |-> calculateSlotScore(slot, allEvents)]
    /\ pc' = "scored"
    /\ UNCHANGED <<now, req, allEvents, availableSlots, slotAgain, err, store, users, resp, calls,
                   ncalls, status>>

NextScore == Score

SpecScore == InitScore /\ [][NextScore]_vars

----------------------------------------------------------------------------
(* Validation on its own: validateScheduleRequest called on one request *)

\* participants of the requests validation is tried on
MaxParticipants == 3

ValidationIDs == {"", "a", "b"}

\* the instants validation is called at: in a year followed by a common year,
\* with a 29 February in the year ahead, and on a 29 February
ValidationNow == { At(8, 0), OnDate(3, 3, 2, 8, 0), OnDate(4, 2, 29, 8, 0) }

ValidationDurations == {-10, 0, 1, 60, 480, 481}

ValidationStarts(t) == { 0, t - 60, t, t + 60, AddYear(t) - 30 }

ValidationEnds(t) ==
    { 0, t - 30, t, t + 60, t + 120, t + 365 * (24 * 60) + 60,
      AddYear(t), AddYear(t) + 1 }

ValidationRequests(t) ==
    { Request(ids, d, st, en, "") :
        ids \in SeqsUpTo(ValidationIDs, MaxParticipants), d \in ValidationDurations,
        st \in ValidationStarts(t), en \in ValidationEnds(t) }

InitValidate ==
    /\ pc = "call"
    /\ now \in ValidationNow
    /\ req \in ValidationRequests(now)
    /\ allEvents = <<>>
    /\ availableSlots = <<>>
    /\ slot = Nil
    /\ slotAgain = Nil
    /\ err = NoError
    /\ store = {}
    /\ users = Users
    /\ resp = Nil
    /\ calls = <<>>
    /\ ncalls = 0
    /\ status = 0
    /\ scores = Nil

Validate ==
    /\ pc = "call"
    /\ err' = validateScheduleRequest(req, now)
    /\ pc' = "returned"
    /\ UNCHANGED <<now, req, allEvents, availableSlots, slot, slotAgain, store, users, resp, calls,
                   ncalls, status, scores>>

NextValidate == Validate

SpecValidate == InitValidate /\ [][NextValidate]_vars

----------------------------------------------------------------------------
(* pkg/repository, internal/service and internal/transport: the two tables   *)
(* and the operations on them.  net/http serves every request in a goroutine *)
(* of its own, scripts/migrate.go is a process of its own, and the           *)
(* repository is used without lock or transaction: an operation takes one    *)
(* step per statement it sends to the database, and the steps of the         *)
(* operations in flight interleave.  Here pc, req, allEvents, slot, err,     *)
(* resp, calls and status hold one value per operation; the tables users and *)
(* store are shared.                                                         *)

\* operations of one behaviour; the p-th one to start is operation p
MaxCalls == 2

Calls == 1 .. MaxCalls

\* the error of a statement the database fails to execute (connection lost,
\* context cancelled, lock wait timeout)
ErrDatabase == "database error"

\* the error of an INSERT whose primary key is already in the table
ErrDuplicateEntry == "Error 1062: Duplicate entry"

\* uuid.New(): the ID of the k-th event operation p creates, which no other row has
NewID(p, k) == <<p, k>>

\* domain.NewCalendarEvent
NewCalendarEvent(id, title, startTime, endTime, userID) ==
    [ID |-> id, Title |-> title, StartTime |-> startTime, EndTime |-> endTime,
     UserID |-> userID]

\* domain.NewUser(name).ID: the fresh ID of the k-th user SeedTestData of
\* operation p creates
SeedUserID(p, k) == <<"alice", "bob", "charlie">>[k] \o ToString(p)

\* the titles of the events of SeedTestData
SeedTitles == <<"Team Meeting", "Project Review", "Client Call">>

\* the k-th event of SeedTestData: 24, 26 and 28 hours from now, one hour long
SeedEvent(p, k, t) ==
    NewCalendarEvent(NewID(p, k), SeedTitles[k], t + (22 + 2 * k) * 60,
                     t + (23 + 2 * k) * 60, SeedUserID(p, k))

\* GetUser finding a row whatever the ID
GetUserAnyID(tbl, id) == TRUE

\* GetUser: whether table users has a row with this ID
GetUser(tbl, id) == id \in tbl

\* CreateUser: one more row of table users
CreateUser(tbl, id) == tbl \cup {id}

\* the orders in which a query without ORDER BY can return a set of rows
Orderings(S) ==
    { f \in [1 .. Cardinality(S) -> S] : \A x \in S : \E i \in DOMAIN f : f[i] = x }

\* GetUserEvents selecting the rows of the user that overlap the window
GetUserEventsOverlapping(rows, userID, start, end) ==
    Orderings({ e \in rows : e.UserID = userID /\ e.StartTime <= end /\ e.EndTime >= start })

\* GetUserEvents: the rows of the user with start_time >= start AND
\* end_time <= end, in any order (the results it can return, as a set)
GetUserEvents(rows, userID, start, end) ==
    Orderings({ e \in rows : e.UserID = userID /\ e.StartTime >= start /\ e.EndTime <= end })

\* CreateEvent: one more row of table calendar_events
CreateEvent(rows, event) == rows \cup {event}

\* how many calls of a repository operation an operation has made
opCount(log, op) == Cardinality({ i \in 1 .. Len(log) : log[i][1] = op })

\* meetingTitle without the default for an empty title
meetingTitleAsGiven(r) == r.Title

\* meetingTitle
meetingTitle(r) == IF r.Title = "" THEN "New Meeting" ELSE r.Title

\* domain.ScheduleResponse (its MeetingID, a fresh UUID, is left out)
Response(r, s) ==
    [Title |-> meetingTitle(r), ParticipantIDs |-> r.ParticipantIDs,
     StartTime |-> s.Start, EndTime |-> s.End]

\* the error of GetUserCalendar for a window without events of the user
ErrNoMeetings == "no meetings found for the specified user and time window"

\* endpoint.GetUserCalendarRequest
CalendarRequest(userID, start, end) == [UserID |-> userID, Start |-> start, End |-> end]

\* encodeError: the status code written for an error of an endpoint
encodeError(e) ==
    IF e = ErrInvalidRequest THEN 400
    ELSE IF e = ErrNoAvailableSlot THEN 409
    ELSE IF e = ErrUserNotFound THEN 404
    ELSE 500

\* the status code of a response: ok (201 Created of scheduleHandler, 200 of
\* the calendar handler) without error, encodeError's otherwise
statusCode(e, ok) == IF e = NoError THEN ok ELSE encodeError(e)

\* the instant the service is called at
ServiceNow == At(8, 0)

\* the requests POST /schedule is called with: the two participants of the
\* service tests on the window of the "No available slots" test, a duration
\* over the limit, a wider window, an unknown participant, a window that
\* starts inside a meeting, a window the duration fills exactly, no
\* participant, and a window with one candidate and a title
ServiceRequests ==
    { Request(<<"user1", "user2">>, 60, At(9, 0), At(11, 0), ""),
      Request(<<"user1", "user2">>, 500, At(9, 0), At(11, 0), ""),
      Request(<<"user1", "user2">>, 60, At(7, 30), At(12, 0), ""),
      Request(<<"user1", "nonexistent">>, 60, At(9, 0), At(11, 0), ""),
      Request(<<"user1">>, 60, At(9, 30), At(12, 0), ""),
      Request(<<"user1">>, 60, At(9, 0), At(10, 0), ""),
      Request(<<>>, 60, At(9, 0), At(10, 0), ""),
      Request(<<"user1">>, 60, At(9, 0), At(10, 15), "Standup") }

\* the calendars GET /users/{userId}/calendar is asked for
CalendarRequests ==
    { CalendarRequest("user1", At(9, 0), At(10, 15)),
      CalendarRequest("user1", At(7, 30), At(12, 0)),
      CalendarRequest("user2", At(9, 0), At(11, 0)),
      CalendarRequest("nonexistent", At(9, 0), At(11, 0)),
      CalendarRequest(SeedUserID(1, 1), ServiceNow + 24 * 60, ServiceNow + 25 * 60) }

\* the IDs CreateUser is called with
NewUsers == {"user1", "nonexistent"}

\* the calendars the service starts from: empty, or the two back-to-back
\* meetings of the "No available slots" test
InitialStores ==
    { {},
      { NewCalendarEvent(NewID(0, 1), "", At(9, 0), At(10, 0), "user1"),
        NewCalendarEvent(NewID(0, 2), "", At(10, 0), At(11, 0), "user2") } }

Init ==
    /\ pc = [p \in Calls |-> "idle"]
    /\ now = ServiceNow
    /\ req = [p \in Calls |-> EmptyRequest]
    /\ allEvents = [p \in Calls |-> <<>>]
    /\ availableSlots = <<>>
    /\ slot = [p \in Calls |-> Nil]
    /\ slotAgain = Nil
    /\ err = [p \in Calls |-> NoError]
    /\ store \in InitialStores
    /\ users = Users
    /\ resp = [p \in Calls |-> Nil]
    /\ calls = [p \in Calls |-> <<>>]
    /\ ncalls = 0
    /\ status = [p \in Calls |-> 0]
    /\ scores = Nil

\* an operation starts: it is operation p
Arrive(p) ==
    /\ ncalls < MaxCalls
    /\ p = ncalls + 1
    /\ ncalls' = ncalls + 1

\* operation p returns from op with error e and result rsp; code is the
\* status written to the HTTP response (0 for a call that is not a request)
Return(p, op, e, rsp, code) ==
    /\ pc' = [pc EXCEPT ![p] = op]
    /\ err' = [err EXCEPT ![p] = e]
    /\ resp' = [resp EXCEPT ![p] = rsp]
    /\ status' = [status EXCEPT ![p] = code]

\* operation p has made one more repository call
Called(p, op, arg) == calls' = [calls EXCEPT ![p] = Append(@, <<op, arg>>)]

\* POST /schedule arriving, Schedule looking its first participant up before
\* it returns the error of the validation
ScheduleCallLooksUpFirst ==
    \E r \in ServiceRequests :
        LET p == ncalls + 1
            verr == validateScheduleRequest(r, now)
        IN  /\ Arrive(p)
            /\ req' = [req EXCEPT ![p] = r]
            /\ IF verr # NoError
               THEN /\ Return(p, "Schedule", verr, Nil, statusCode(verr, 201))
                    /\ IF Len(r.ParticipantIDs) > 0
                       THEN Called(p, "GetUser", r.ParticipantIDs[1])
                       ELSE UNCHANGED calls
               ELSE /\ pc' = [pc EXCEPT ![p] = "Schedule.GetUser"]
                    /\ UNCHANGED <<err, resp, status, calls>>
            /\ UNCHANGED <<now, allEvents, availableSlots, slot, slotAgain, store, users,
                           scores>>

\* POST /schedule arriving: scheduleHandler decodes the request and Schedule
\* validates it, which touches no table
ScheduleCall ==
    \E r \in ServiceRequests :
        LET p == ncalls + 1
            verr == validateScheduleRequest(r, now)
        IN  /\ Arrive(p)
            /\ req' = [req EXCEPT ![p] = r]
            /\ IF verr # NoError
               THEN Return(p, "Schedule", verr, Nil, statusCode(verr, 201))
               ELSE /\ pc' = [pc EXCEPT ![p] = "Schedule.GetUser"]
                    /\ UNCHANGED <<err, resp, status>>
            /\ UNCHANGED <<now, allEvents, availableSlots, slot, slotAgain, store, users,
                           calls, scores>>

\* one iteration of the GetUser loop of Schedule, the query failing or not;
\* any error of GetUser, no row found or a failed query, is returned as
\* ErrUserNotFound
ScheduleGetUser(p) ==
    /\ pc[p] = "Schedule.GetUser"
    /\ LET r == req[p]
           k == opCount(calls[p], "GetUser") + 1
           userID == r.ParticipantIDs[k]
       IN  /\ Called(p, "GetUser", userID)
           /\ \E fails \in BOOLEAN :
                IF fails \/ ~GetUser(users, userID)
                THEN Return(p, "Schedule", ErrUserNotFound, Nil,
                            statusCode(ErrUserNotFound, 201))
                ELSE /\ pc' = [pc EXCEPT ![p] = IF k < Len(r.ParticipantIDs)
                                                  THEN "Schedule.GetUser"
                                                  ELSE "Schedule.GetUserEvents"]
                     /\ UNCHANGED <<err, resp, status>>
    /\ UNCHANGED <<now, req, allEvents, availableSlots, slot, slotAgain, store, users,
                   ncalls, scores>>

\* one iteration of the GetUserEvents loop of Schedule, the query failing or
\* not; after the last one FindOptimalSlot runs on what the operation has read
ScheduleGetUserEvents(p) ==
    /\ pc[p] = "Schedule.GetUserEvents"
    /\ LET r == req[p]
           k == opCount(calls[p], "GetUserEvents") + 1
           userID == r.ParticipantIDs[k]
       IN  /\ Called(p, "GetUserEvents", userID)
           /\ \E fails \in BOOLEAN,
                 events \in GetUserEvents(store, userID, r.TimeRange.Start, r.TimeRange.End) :
                LET read == [u \in DOMAIN allEvents[p] \cup {userID} |->
                                IF u = userID THEN events ELSE allEvents[p][u]]
                IN  IF fails
                    THEN /\ Return(p, "Schedule", ErrInternalError, Nil,
                                   statusCode(ErrInternalError, 201))
                         /\ UNCHANGED <<allEvents, slot>>
                    ELSE /\ allEvents' = [allEvents EXCEPT ![p] = read]
                         /\ IF k < Len(r.ParticipantIDs)
                            THEN UNCHANGED <<pc, slot, err, resp, status>>
                            ELSE \E s \in FindOptimalSlot(r, read) :
                                   IF s = Nil
                                   THEN /\ Return(p, "Schedule", ErrNoAvailableSlot, Nil,
                                                  statusCode(ErrNoAvailableSlot, 201))
                                        /\ UNCHANGED slot
                                   ELSE /\ slot' = [slot EXCEPT ![p] = s]
                                        /\ pc' = [pc EXCEPT ![p] = "Schedule.CreateEvent"]
                                        /\ UNCHANGED <<err, resp, status>>
    /\ UNCHANGED <<now, req, availableSlots, slotAgain, store, users, ncalls, scores>>

\* one iteration of the CreateEvent loop of Schedule, the INSERT failing or
\* not; after the last one the response is written with 201 Created
ScheduleCreateEvent(p) ==
    /\ pc[p] = "Schedule.CreateEvent"
    /\ LET r == req[p]
           k == opCount(calls[p], "CreateEvent") + 1
           userID == r.ParticipantIDs[k]
           event == NewCalendarEvent(NewID(p, k), meetingTitle(r), slot[p].Start,
                                     slot[p].End, userID)
       IN  /\ Called(p, "CreateEvent", userID)
           /\ \E fails \in BOOLEAN :
                IF fails
                THEN /\ Return(p, "Schedule", ErrInternalError, Nil,
                               statusCode(ErrInternalError, 201))
                     /\ UNCHANGED store
                ELSE /\ store' = CreateEvent(store, event)
                     /\ IF k < Len(r.ParticipantIDs)
                        THEN UNCHANGED <<pc, err, resp, status>>
                        ELSE Return(p, "Schedule", NoError, Response(r, slot[p]),
                                    statusCode(NoError, 201))
    /\ UNCHANGED <<now, req, allEvents, availableSlots, slot, slotAgain, users, ncalls,
                   scores>>

\* service.Schedule after the validation: the repository calls of its three
\* loops, one at a time
Schedule(p) == ScheduleGetUser(p) \/ ScheduleGetUserEvents(p) \/ ScheduleCreateEvent(p)

\* GET /users/{userId}/calendar arriving: GetUserCalendar up to its GetUser
\* call, the query failing or not; any error of GetUser is returned as
\* ErrUserNotFound
GetUserCalendarCall ==
    \E c \in CalendarRequests, fails \in BOOLEAN :
        LET p == ncalls + 1
        IN  /\ Arrive(p)
            /\ req' = [req EXCEPT ![p] = c]
            /\ Called(p, "GetUser", c.UserID)
            /\ IF fails \/ ~GetUser(users, c.UserID)
               THEN Return(p, "GetUserCalendar", ErrUserNotFound, Nil,
                           statusCode(ErrUserNotFound, 200))
               ELSE /\ pc' = [pc EXCEPT ![p] = "GetUserCalendar.GetUserEvents"]
                    /\ UNCHANGED <<err, resp, status>>
            /\ UNCHANGED <<now, allEvents, availableSlots, slot, slotAgain, store, users,
                           scores>>

\* service.GetUserCalendar from its GetUserEvents call on, the query failing
\* or not; the events returned are left in resp
GetUserCalendar(p) ==
    /\ pc[p] = "GetUserCalendar.GetUserEvents"
    /\ Called(p, "GetUserEvents", req[p].UserID)
    /\ \E fails \in BOOLEAN,
          events \in GetUserEvents(store, req[p].UserID, req[p].Start, req[p].End) :
         LET e == IF fails THEN ErrInternalError
                  ELSE IF Len(events) = 0 THEN ErrNoMeetings ELSE NoError
         IN  Return(p, "GetUserCalendar", e, IF e = NoError THEN events ELSE Nil,
                    statusCode(e, 200))
    /\ UNCHANGED <<now, req, allEvents, availableSlots, slot, slotAgain, store, users,
                   ncalls, scores>>

\* MySQLRepository.CreateUser called with a user: an INSERT, which the
\* database may fail to execute and which fails when the table has a row
\* with the user's ID
CreateUserCall ==
    \E id \in NewUsers, fails \in BOOLEAN :
        LET p == ncalls + 1
        IN  /\ Arrive(p)
            /\ Called(p, "CreateUser", id)
            /\ IF fails
               THEN Return(p, "CreateUser", ErrDatabase, Nil, 0) /\ UNCHANGED users
               ELSE IF GetUser(users, id)
               THEN Return(p, "CreateUser", ErrDuplicateEntry, Nil, 0) /\ UNCHANGED users
               ELSE Return(p, "CreateUser", NoError, Nil, 0) /\ users' = CreateUser(users, id)
            /\ UNCHANGED <<now, req, allEvents, availableSlots, slot, slotAgain, store,
                           scores>>

\* MySQLRepository.ClearAllData called: its DELETE FROM calendar_events
ClearAllDataCall ==
    LET p == ncalls + 1
    IN  /\ Arrive(p)
        /\ Called(p, "Exec", "DELETE FROM calendar_events")
        /\ \E fails \in BOOLEAN :
             IF fails
             THEN Return(p, "ClearAllData", ErrDatabase, Nil, 0) /\ UNCHANGED store
             ELSE /\ store' = {}
                  /\ pc' = [pc EXCEPT ![p] = "ClearAllData.users"]
                  /\ UNCHANGED <<err, resp, status>>
        /\ UNCHANGED <<now, req, allEvents, availableSlots, slot, slotAgain, users, scores>>

\* ClearAllData: its DELETE FROM users
ClearAllData(p) ==
    /\ pc[p] = "ClearAllData.users"
    /\ Called(p, "Exec", "DELETE FROM users")
    /\ \E fails \in BOOLEAN :
         IF fails
         THEN Return(p, "ClearAllData", ErrDatabase, Nil, 0) /\ UNCHANGED users
         ELSE Return(p, "ClearAllData", NoError, Nil, 0) /\ users' = {}
    /\ UNCHANGED <<now, req, allEvents, availableSlots, slot, slotAgain, store, ncalls,
                   scores>>

\* MySQLRepository.SeedTestData called: the CreateUser of its first user
SeedTestDataCall ==
    LET p == ncalls + 1
    IN  /\ Arrive(p)
        /\ Called(p, "CreateUser", SeedUserID(p, 1))
        /\ \E fails \in BOOLEAN :
             IF fails
             THEN Return(p, "SeedTestData", ErrDatabase, Nil, 0) /\ UNCHANGED users
             ELSE /\ users' = CreateUser(users, SeedUserID(p, 1))
                  /\ pc' = [pc EXCEPT ![p] = "SeedTestData.create"]
                  /\ UNCHANGED <<err, resp, status>>
        /\ UNCHANGED <<now, req, allEvents, availableSlots, slot, slotAgain, store, scores>>

\* SeedTestData: the next INSERT of its two loops, three users and then one
\* event for each of them; it returns at the first INSERT that fails
SeedTestData(p) ==
    /\ pc[p] = "SeedTestData.create"
    /\ LET ku == opCount(calls[p], "CreateUser")
           ke == opCount(calls[p], "CreateEvent")
       IN  \E fails \in BOOLEAN :
             IF ku < Len(SeedTitles)
             THEN /\ Called(p, "CreateUser", SeedUserID(p, ku + 1))
                  /\ IF fails
                     THEN Return(p, "SeedTestData", ErrDatabase, Nil, 0) /\ UNCHANGED users
                     ELSE /\ users' = CreateUser(users, SeedUserID(p, ku + 1))
                          /\ UNCHANGED <<pc, err, resp, status>>
                  /\ UNCHANGED store
             ELSE /\ Called(p, "CreateEvent", SeedUserID(p, ke + 1))
                  /\ IF fails
                     THEN Return(p, "SeedTestData", ErrDatabase, Nil, 0) /\ UNCHANGED store
                     ELSE /\ store' = CreateEvent(store, SeedEvent(p, ke + 1, now))
                          /\ IF ke + 1 < Len(SeedTitles)
                             THEN UNCHANGED <<pc, err, resp, status>>
                             ELSE Return(p, "SeedTestData", NoError, Nil, 0)
                  /\ UNCHANGED users
    /\ UNCHANGED <<now, req, allEvents, availableSlots, slot, slotAgain, ncalls, scores>>

Next ==
    \/ ScheduleCall
    \/ GetUserCalendarCall
    \/ CreateUserCall
    \/ ClearAllDataCall
    \/ SeedTestDataCall
    \/ \E p \in Calls : Schedule(p)
    \/ \E p \in Calls : GetUserCalendar(p)
    \/ \E p \in Calls : ClearAllData(p)
    \/ \E p \in Calls : SeedTestData(p)

Spec == Init /\ [][Next]_vars

----------------------------------------------------------------------------
(* Claims about the search, under SpecSearch *)

\* a slot has been returned by the first call
Returned == pc # "call" /\ slot # Nil

\* the busy intervals of all participants of a mapping
AllBusy(events) ==
    UNION { { events[u][i] : i \in 1 .. Len(events[u]) } : u \in DOMAIN events }

\* C1: the slot FindOptimalSlot returns conflicts with no busy interval of any
\* participant: it ends strictly before the interval starts or starts strictly
\* after it ends, so a slot touching a busy interval is never returned.
C1_NoConflict ==
    Returned =>
        \A b \in AllBusy(allEvents) : slot.End < b.StartTime \/ slot.Start > b.EndTime

\* a slot was returned while a candidate of the grid that only touches a busy
\* interval (it starts where the interval ends) was left out
C1_Witness ==
    /\ Returned
    /\ \E b \in AllBusy(allEvents) :
          /\ b.EndTime >= req.TimeRange.Start
          /\ (b.EndTime - req.TimeRange.Start) % slotStep = 0
          /\ b.EndTime + req.DurationMinutes < req.TimeRange.End
          /\ \A c \in AllBusy(allEvents) :
                b.EndTime + req.DurationMinutes < c.StartTime \/ b.EndTime >= c.EndTime
          /\ \A i \in 1 .. Len(availableSlots) : availableSlots[i].Start # b.EndTime

\* C2: a returned slot lasts exactly the requested duration, starts at the
\* window's start plus a whole number of 15 minute steps, and ends strictly
\* before the window's end.
C2_SlotInWindow ==
    Returned =>
        /\ slot.End = slot.Start + req.DurationMinutes
        /\ slot.Start >= req.TimeRange.Start
        /\ slot.End < req.TimeRange.End
        /\ (slot.Start - req.TimeRange.Start) % 15 = 0

\* a slot was returned although the free slot of the grid that ends exactly on
\* the window's end scores at least as high
C2_Witness ==
    /\ Returned
    /\ LET last == [Start |-> req.TimeRange.End - req.DurationMinutes,
                     End |-> req.TimeRange.End]
       IN  /\ last.Start >= req.TimeRange.Start
           /\ (last.Start - req.TimeRange.Start) % 15 = 0
           /\ isSlotAvailable(last.Start, last.End, allEvents)
           /\ ~RLess(calculateSlotScore(last, allEvents), slot.Score)

\* the composite score of the specification: 1.0 workingHours + 0.8 earlySlot
\* + 0.6 gapMinimization + 0.4 bufferTime
CompositeScore(s, events) ==
    RAdd(RAdd(workingHoursScore(s), RMul(<<4, 5>>, earlySlotScore(s))),
         RAdd(RMul(<<3, 5>>, gapMinimizationScore(s, events)),
              RMul(<<2, 5>>, bufferTimeScore(s, events))))

\* C3: the returned slot carries the composite score, and no admitted
\* candidate has a higher composite score.
C3_BestScore ==
    Returned =>
        /\ slot.Score = CompositeScore(slot, allEvents)
        /\ \A i \in 1 .. Len(availableSlots) :
              ~RLess(slot.Score, CompositeScore(availableSlots[i], allEvents))

\* a slot was returned that beats another admitted candidate
C3_Witness ==
    /\ Returned
    /\ \E i \in 1 .. Len(availableSlots) :
          RLess(CompositeScore(availableSlots[i], allEvents), slot.Score)

\* the admitted candidates with the highest composite score
TopSlots ==
    { i \in 1 .. Len(availableSlots) :
        \A j \in 1 .. Len(availableSlots) :
            ~RLess(CompositeScore(availableSlots[i], allEvents),
                   CompositeScore(availableSlots[j], allEvents)) }

\* C4: among the admitted candidates that share the highest score, the one
\* with the earliest start is returned.
C4_EarliestOfTies ==
    Returned => \A i \in TopSlots : slot.Start <= availableSlots[i].Start

\* C5: two calls of FindOptimalSlot with the same request and the same mapping
\* return the same result.
C5_Deterministic ==
    pc = "again" => slotAgain = slot

\* C10: with no busy interval at all and a window inside one day that starts
\* on a whole hour at or before 09:00 and ends after 09:00 plus the duration,
\* the slot starting at 09:00 is selected.
C10_NineOClock ==
    ( /\ pc = "returned"
      /\ AllBusy(allEvents) = {}
      /\ req.TimeRange.Start % 60 = 0
      /\ req.TimeRange.End <= At(24, 0)
      /\ req.TimeRange.Start <= At(9, 0)
      /\ req.TimeRange.End > At(9, 0) + req.DurationMinutes )
    => (slot # Nil /\ slot.Start = At(9, 0))

----------------------------------------------------------------------------
(* Claims about validation, under SpecValidate *)

\* the IDs of a participant list, and whether they are pairwise distinct
IDSet(ids) == { ids[i] : i \in 1 .. Len(ids) }

Distinct(ids) == \A i, j \in 1 .. Len(ids) : i # j => ids[i] # ids[j]

\* one year after instant t: 366 days when a 29 February lies in between (or t
\* is on one), 365 days otherwise
OneYearAfter(t) ==
    LET day == t \div 1440
        y == YearOfDay(day)
        yday == day - DaysBeforeYear(y)
        leapDayAhead == \/ IsLeapYear(y) /\ yday <= 59
                        \/ IsLeapYear(y + 1) /\ yday >= (IF IsLeapYear(y) THEN 60 ELSE 59)
    IN  t + 1440 * (IF leapDayAhead THEN 366 ELSE 365)

\* the conditions of the specification on a request, at instant t
SearchReady(r, t) ==
    /\ Len(r.ParticipantIDs) > 0
    /\ "" \notin IDSet(r.ParticipantIDs)
    /\ Distinct(r.ParticipantIDs)
    /\ 1 <= r.DurationMinutes /\ r.DurationMinutes <= 480
    /\ r.TimeRange.Start # 0 /\ r.TimeRange.End # 0
    /\ r.TimeRange.Start < r.TimeRange.End
    /\ r.TimeRange.Start >= t
    /\ r.TimeRange.End <= OneYearAfter(t)
    /\ r.TimeRange.Start + r.DurationMinutes <= r.TimeRange.End

\* C7: validateScheduleRequest accepts a request exactly when the participant
\* list is non-empty, without empty or repeated IDs, the duration is in 1..480,
\* start and end are present, start < end, start >= now, end <= now + 1 year
\* and start + duration <= end.
C7_AcceptsIffSearchReady ==
    pc = "returned" => (err = NoError <=> SearchReady(req, now))

\* a request on the boundaries (start = now, end = now + 1 year) has been
\* accepted at an instant whose year ahead holds a 29 February, so that the
\* end lies 366 days from now
C7_Witness ==
    /\ pc = "returned"
    /\ err = NoError
    /\ req.TimeRange.Start = now
    /\ req.TimeRange.End = OneYearAfter(now)
    /\ req.TimeRange.End = now + 366 * 1440

\* the error of the first failing check, the checks taken in the order of the
\* specification: all empty IDs before any repeated ID, start strictly before end
FirstFailingAsSpecified(r, t) ==
    IF Len(r.ParticipantIDs) = 0 THEN ErrNoParticipants
    ELSE IF "" \in IDSet(r.ParticipantIDs) THEN ErrEmptyParticipantID
    ELSE IF ~Distinct(r.ParticipantIDs) THEN ErrDuplicateParticipant
    ELSE IF r.DurationMinutes <= 0 THEN ErrDurationNotPositive
    ELSE IF r.DurationMinutes > 480 THEN ErrDurationTooLong
    ELSE IF r.TimeRange.Start = 0 THEN ErrStartRequired
    ELSE IF r.TimeRange.End = 0 THEN ErrEndRequired
    ELSE IF ~(r.TimeRange.Start < r.TimeRange.End) THEN ErrStartAfterEnd
    ELSE IF r.TimeRange.Start < t THEN ErrStartInPast
    ELSE IF r.TimeRange.End > OneYearAfter(t) THEN ErrEndTooFar
    ELSE IF r.TimeRange.Start + r.DurationMinutes > r.TimeRange.End
         THEN ErrDurationDoesNotFit
    ELSE NoError

\* C8 as stated: the error reported is that of the first failing check in the
\* order (1) no participant, (2) an empty ID, (3) a repeated ID, (4) duration,
\* (5) start or end missing, (6) start not strictly before end, (7) start in
\* the past, (8) end more than a year ahead, (9) duration does not fit.
C8_FixedOrder ==
    pc = "returned" => err = FirstFailingAsSpecified(req, now)

\* the first position of a participant list that holds an empty ID or an ID
\* that occurs before it (0 when there is none)
FirstBadParticipant(ids) ==
    LET bad == { i \in 1 .. Len(ids) :
                    ids[i] = "" \/ \E j \in 1 .. i - 1 : ids[j] = ids[i] }
    IN  IF bad = {} THEN 0 ELSE CHOOSE i \in bad : \A k \in bad : i <= k

\* the error of the first failing check, the participant list scanned once
\* (what is wrong with the first bad ID decides) and start only required not
\* to be after end
FirstFailingAmended(r, t) ==
    LET ids == r.ParticipantIDs
        k == FirstBadParticipant(ids)
    IN  IF Len(ids) = 0 THEN ErrNoParticipants
        ELSE IF k # 0 /\ ids[k] = "" THEN ErrEmptyParticipantID
        ELSE IF k # 0 THEN ErrDuplicateParticipant
        ELSE IF r.DurationMinutes <= 0 THEN ErrDurationNotPositive
        ELSE IF r.DurationMinutes > 480 THEN ErrDurationTooLong
        ELSE IF r.TimeRange.Start = 0 THEN ErrStartRequired
        ELSE IF r.TimeRange.End = 0 THEN ErrEndRequired
        ELSE IF r.TimeRange.Start > r.TimeRange.End THEN ErrStartAfterEnd
        ELSE IF r.TimeRange.Start < t THEN ErrStartInPast
        ELSE IF r.TimeRange.End > OneYearAfter(t) THEN ErrEndTooFar
        ELSE IF r.TimeRange.Start + r.DurationMinutes > r.TimeRange.End
             THEN ErrDurationDoesNotFit
        ELSE NoError

\* C8, amended: the error reported is that of the first failing check, where
\* the participant list is scanned once from the front and the first ID that
\* is empty or repeats an earlier one decides between the empty-ID and the
\* duplicate error, and check (6) fails only when start is strictly after end.
C8_FirstFailingCheck ==
    pc = "returned" => err = FirstFailingAmended(req, now)

\* a repeated ID in front of an empty one was reported as a duplicate, or a
\* window with start = end as a duration that does not fit
C8_Witness ==
    /\ pc = "returned"
    /\ \/ /\ req.ParticipantIDs = <<"a", "a", "">>
          /\ err = ErrDuplicateParticipant
       \/ /\ req.TimeRange.Start = req.TimeRange.End
          /\ err = ErrDurationDoesNotFit

----------------------------------------------------------------------------
(* Claims about Schedule and GetUserCalendar, under Spec *)

\* operation p is a Schedule call, in flight or returned
InSchedule(p) ==
    pc[p] \in {"Schedule.GetUser", "Schedule.GetUserEvents", "Schedule.CreateEvent", "Schedule"}

\* the rows of the event store that operation p has created
CreatedBy(p) == { e \in store : e.ID[1] = p }

\* Schedule call p got as far as calling FindOptimalSlot: the request was
\* valid, every participant was found and every GetUserEvents succeeded
SearchRan(p) ==
    /\ InSchedule(p)
    /\ Len(req[p].ParticipantIDs) > 0
    /\ opCount(calls[p], "GetUserEvents") = Len(req[p].ParticipantIDs)
    /\ ~(err[p] = ErrInternalError /\ opCount(calls[p], "CreateEvent") = 0)

\* C6: FindOptimalSlot returns no slot exactly when the enumerator admits no
\* candidate; exactly then Schedule, called with a valid request of known
\* participants, returns ErrNoAvailableSlot, which is none of the validation
\* errors, and the call creates no event.
C6_NoSlotOutcome ==
    \A p \in Calls :
        SearchRan(p) =>
            LET admitted == findAvailableSlots(req[p], allEvents[p])
            IN  /\ (slot[p] = Nil) <=> (Len(admitted) = 0)
                /\ (Len(admitted) = 0) => (pc[p] = "Schedule" /\ err[p] = ErrNoAvailableSlot)
                /\ (err[p] = ErrNoAvailableSlot) => (Len(admitted) = 0)
                /\ (Len(admitted) = 0) =>
                      opCount(calls[p], "CreateEvent") = 0 /\ CreatedBy(p) = {}
                /\ ErrNoAvailableSlot \notin ValidationErrors

\* Schedule has returned ErrNoAvailableSlot for two participants whose busy
\* intervals, back to back, fill the window
C6_Witness ==
    \E p \in Calls :
        /\ pc[p] = "Schedule"
        /\ err[p] = ErrNoAvailableSlot
        /\ slot[p] = Nil
        /\ Len(req[p].ParticipantIDs) = 2
        /\ DOMAIN allEvents[p] = {"user1", "user2"}
        /\ \A u \in DOMAIN allEvents[p] : Len(allEvents[p][u]) > 0

\* C9: when validation of the request fails, Schedule returns the validation
\* error itself, performs no repository operation, does not run the search
\* and leaves the event store as it was.
C9_ValidationFailureStopsSchedule ==
    [][ \A p \in Calls :
          (pc[p] = "idle" /\ InSchedule(p)' /\ FirstFailingAmended(req'[p], now) # NoError) =>
              /\ pc'[p] = "Schedule"
              /\ err'[p] = FirstFailingAmended(req'[p], now)
              /\ err'[p] \in ValidationErrors
              /\ calls'[p] = <<>>
              /\ store' = store /\ users' = users
              /\ slot'[p] = Nil /\ allEvents'[p] = <<>> /\ resp'[p] = Nil ]_vars

\* Schedule has rejected a request of 500 minutes for known participants on a
\* calendar that holds events
C9_Witness ==
    \E p \in Calls :
        /\ pc[p] = "Schedule"
        /\ req[p].DurationMinutes = 500
        /\ req[p].ParticipantIDs = <<"user1", "user2">>
        /\ err[p] = ErrDurationTooLong
        /\ calls[p] = <<>>
        /\ store # {}

\* operation p takes a step
Steps(p) == pc'[p] # pc[p] \/ calls'[p] # calls[p]

\* the user a CreateEvent call of operation p was made for last
LastCreated(p) == calls'[p][Len(calls'[p])][2]

\* C11: when Schedule succeeds it has created exactly one event per participant
\* of the request and no other event, every created event has the start and
\* end of the selected slot and the request's title ("New Meeting" when that
\* is empty), and the response carries the same start, end and title and the
\* request's participant list.
C11_SuccessCreatesOnePerParticipant ==
    [][ \A p \in Calls :
          LET ids == req[p].ParticipantIDs
              title == IF req[p].Title = "" THEN "New Meeting" ELSE req[p].Title
              creates == SelectSeq(calls'[p], LAMBDA c : c[1] = "CreateEvent")
          IN  /\ (InSchedule(p) /\ Steps(p)) =>
                    IF pc[p] = "Schedule.CreateEvent" /\ err'[p] = NoError
                    THEN \E e \in store' \ store :
                           /\ store' = store \cup {e}
                           /\ e.UserID = LastCreated(p)
                           /\ e.StartTime = slot[p].Start /\ e.EndTime = slot[p].End
                           /\ e.Title = title
                    ELSE store' = store
              /\ (Steps(p) /\ pc'[p] = "Schedule" /\ err'[p] = NoError) =>
                    /\ slot'[p] # Nil
                    /\ [k \in 1 .. Len(creates) |-> creates[k][2]] = ids
                    /\ resp'[p] # Nil
                    /\ resp'[p].StartTime = slot'[p].Start
                    /\ resp'[p].EndTime = slot'[p].End
                    /\ resp'[p].Title = title
                    /\ resp'[p].ParticipantIDs = ids ]_vars

\* Schedule has succeeded for two participants and a request without title, on
\* a calendar that held events before, and the table holds its two events
C11_Witness ==
    \E p \in Calls :
        /\ pc[p] = "Schedule"
        /\ err[p] = NoError
        /\ req[p].Title = ""
        /\ req[p].ParticipantIDs = <<"user1", "user2">>
        /\ resp[p] # Nil /\ resp[p].Title = "New Meeting"
        /\ Cardinality(CreatedBy(p)) = 2
        /\ Cardinality(store) > 2

\* C12: when a participant of a valid request is unknown to the repository,
\* Schedule returns ErrUserNotFound whether or not a slot is available, and it
\* neither fetches the events of any participant nor creates an event: every
\* participant is looked up before the first GetUserEvents call.  (A lookup
\* the database fails to execute ends the call in the same way; a lookup that
\* finds the row lets it go on.)
C12_UnknownUserStopsSchedule ==
    [][ \A p \in Calls :
          LET ids == req[p].ParticipantIDs
              n == Len(calls'[p])
          IN  /\ (pc[p] = "Schedule.GetUser" /\ Steps(p)) =>
                    /\ calls'[p] = [k \in 1 .. n |-> <<"GetUser", ids[k]>>]
                    /\ n = Len(calls[p]) + 1
                    /\ store' = store
                    /\ ids[n] \notin users => pc'[p] = "Schedule"
                    /\ IF pc'[p] = "Schedule"
                       THEN /\ err'[p] = ErrUserNotFound
                            /\ status'[p] = 404
                            /\ slot'[p] = Nil /\ resp'[p] = Nil /\ allEvents'[p] = <<>>
                       ELSE /\ ids[n] \in users
                            /\ err'[p] = NoError
                            /\ pc'[p] = IF n < Len(ids) THEN "Schedule.GetUser"
                                        ELSE "Schedule.GetUserEvents"
              /\ (pc[p] = "Schedule.GetUserEvents" /\ Steps(p)) =>
                    SubSeq(calls[p], 1, Len(ids)) = [k \in 1 .. Len(ids) |-> <<"GetUser", ids[k]>>]
        ]_vars

\* Schedule has returned ErrUserNotFound for a request whose first participant
\* is known and for whose window the search would have found a slot
C12_Witness ==
    \E p \in Calls :
        /\ pc[p] = "Schedule"
        /\ err[p] = ErrUserNotFound
        /\ req[p].ParticipantIDs = <<"user1", "nonexistent">>
        /\ calls[p] = << <<"GetUser", "user1">>, <<"GetUser", "nonexistent">> >>
        /\ "nonexistent" \notin users
        /\ Nil \notin FindOptimalSlot(req[p], [u \in {"user1", "nonexistent"} |-> <<>>])
        /\ store = {}

\* the rows of the event store that belong to a user and lie entirely inside
\* a window, both bounds included
InsideWindow(rows, userID, start, end) ==
    { e \in rows : e.UserID = userID /\ e.StartTime >= start /\ e.EndTime <= end }

\* C13: GetUserCalendar returns ErrUserNotFound for an unknown user without
\* querying events; for a known user (neither of its two queries failing) it
\* returns exactly the user's events that lie entirely inside the window,
\* bounds included, and an error instead of an empty list when there is none;
\* it leaves the event store unchanged.  (A GetUser query that fails ends the
\* call with ErrUserNotFound, a GetUserEvents query that fails with
\* ErrInternalError, in both cases without a result.)
C13_CalendarInsideWindow ==
    [][ \A p \in Calls :
          LET c == req'[p]
              inside == InsideWindow(store, c.UserID, c.Start, c.End)
          IN  /\ (pc[p] = "idle" /\ pc'[p] \in {"GetUserCalendar.GetUserEvents", "GetUserCalendar"}) =>
                    /\ store' = store /\ users' = users
                    /\ calls'[p] = << <<"GetUser", c.UserID>> >>
                    /\ c.UserID \notin users => pc'[p] = "GetUserCalendar"
                    /\ IF pc'[p] = "GetUserCalendar"
                       THEN err'[p] = ErrUserNotFound /\ resp'[p] = Nil
                       ELSE c.UserID \in users /\ err'[p] = NoError
              /\ (pc[p] = "GetUserCalendar.GetUserEvents" /\ Steps(p)) =>
                    /\ store' = store /\ users' = users
                    /\ pc'[p] = "GetUserCalendar"
                    /\ err'[p] = ErrInternalError => resp'[p] = Nil
                    /\ err'[p] # ErrInternalError =>
                          IF inside = {}
                          THEN err'[p] # NoError /\ resp'[p] = Nil
                          ELSE /\ err'[p] = NoError
                               /\ Len(resp'[p]) = Cardinality(inside)
                               /\ { resp'[p][j] : j \in 1 .. Len(resp'[p]) } = inside ]_vars

\* GetUserCalendar has returned an event that starts exactly on the window's
\* start while the user has another event that is not entirely inside
C13_Witness ==
    \E p \in Calls :
        /\ pc[p] = "GetUserCalendar"
        /\ err[p] = NoError
        /\ \E j \in 1 .. Len(resp[p]) : resp[p][j].StartTime = req[p].Start
        /\ \E e \in store :
              /\ e.UserID = req[p].UserID
              /\ e.StartTime < req[p].End /\ e.EndTime > req[p].End

----------------------------------------------------------------------------
(* Claims about the enumeration and the scores *)

\* the starts the enumeration has to produce: on the 15 minute grid of the
\* window, before its end, the slot ending strictly before the window's end
\* and conflicting with no busy interval
GridStarts ==
    LET ws == req.TimeRange.Start
        we == req.TimeRange.End
        d == req.DurationMinutes
    IN  { s \in { ws + 15 * k : k \in 0 .. ((we - ws) \div 15) } :
            /\ s < we
            /\ s + d < we
            /\ \A b \in AllBusy(allEvents) : s + d < b.StartTime \/ s > b.EndTime }

\* C14: findAvailableSlots returns exactly the slots [s, s + duration] with s
\* on the 15 minute grid of the window, s and s + duration strictly before
\* the window's end, free of every busy interval of every participant; each
\* once, in strictly ascending order of start, after at most one iteration
\* per grid point of the window.
C14_ExactlyTheGridSlots ==
    pc # "call" =>
        /\ \A i \in 1 .. Len(availableSlots) :
              availableSlots[i].End = availableSlots[i].Start + req.DurationMinutes
        /\ { availableSlots[i].Start : i \in 1 .. Len(availableSlots) } = GridStarts
        /\ \A i, j \in 1 .. Len(availableSlots) :
              i < j => availableSlots[i].Start < availableSlots[j].Start
        /\ Len(availableSlots) <= (req.TimeRange.End - req.TimeRange.Start + 14) \div 15

\* the enumeration has returned slots on both sides of a busy interval and
\* left out the free slot that ends exactly on the window's end
C14_Witness ==
    /\ pc # "call"
    /\ \E i \in 1 .. Len(availableSlots) - 1 :
          availableSlots[i + 1].Start > availableSlots[i].Start + 15
    /\ (req.TimeRange.End - req.DurationMinutes - req.TimeRange.Start) % 15 = 0
    /\ isSlotAvailable(req.TimeRange.End - req.DurationMinutes, req.TimeRange.End, allEvents)
    /\ \A i \in 1 .. Len(availableSlots) : availableSlots[i].End # req.TimeRange.End

\* C20: workingHoursScore depends only on the hour of the day h of the slot's
\* start: it is 1.0 for 9 <= h < 17, 0.5 for h = 8 or h = 17, and 0.0 for
\* every other hour, whatever the minutes.
C20_WorkingHoursByHour ==
    pc = "scored" =>
        LET h == (slot.Start \div 60) % 24
        IN  scores.workingHours =
                (IF 9 <= h /\ h < 17 THEN <<1, 1>>
                 ELSE IF h = 8 \/ h = 17 THEN <<1, 2>>
                 ELSE <<0, 1>>)

\* a slot starting at 17:59 has been given the working hours score 0.5
C20_Witness ==
    /\ pc = "scored"
    /\ slot.Start = At(17, 59)
    /\ scores.workingHours = <<1, 2>>

----------------------------------------------------------------------------
(* Claims about the event store and the HTTP responses, under Spec *)

\* no participant has two events of which neither ends strictly before the
\* other starts
NoConflicts(rows) ==
    \A e1, e2 \in rows :
        (e1 # e2 /\ e1.UserID = e2.UserID) =>
            e1.EndTime < e2.StartTime \/ e2.EndTime < e1.StartTime

\* C15: successful Schedule calls on an event store without conflicts leave
\* an event store without conflicts; stated for the shortest sequence, one
\* successful call that is the only operation on the tables.
C15_SchedulePreservesNoConflicts ==
    (ncalls = 1 /\ pc[1] = "Schedule" /\ err[1] = NoError) => NoConflicts(store)

\* C17: a request that passes validation, for known participants none of whom
\* has any busy interval, gets a slot.
C17_ValidRequestIsSatisfiable ==
    \A p \in Calls :
        (SearchRan(p) /\ \A u \in DOMAIN allEvents[p] : allEvents[p][u] = <<>>) =>
            slot[p] # Nil

\* C18: when a Schedule call has returned an error, the event store holds no
\* event created by that call.
C18_ErrorLeavesStoreUnchanged ==
    \A p \in Calls : (pc[p] = "Schedule" /\ err[p] # NoError) => CreatedBy(p) = {}

\* C19: POST /schedule answers a request that fails validation with 400, one
\* without available slot with 409, one naming an unknown user with 404, and
\* with 500 only when the repository has failed.
C19_StatusCodes ==
    \A p \in Calls :
        pc[p] = "Schedule" =>
            /\ FirstFailingAmended(req[p], now) # NoError => status[p] = 400
            /\ err[p] = ErrNoAvailableSlot => status[p] = 409
            /\ err[p] = ErrUserNotFound => status[p] = 404
            /\ status[p] = 500 => err[p] = ErrInternalError

----------------------------------------------------------------------------
(* Claims about concurrent requests, under Spec *)

\* C16: when two Schedule requests for the same window that share a
\* participant are handled concurrently and both succeed, their slots do not
\* conflict and the shared participant has no two conflicting events of
\* theirs, whatever the interleaving of their GetUserEvents reads and
\* CreateEvent writes.
C16_ConcurrentNoConflicts ==
    \A p, q \in Calls :
        ( /\ p < q
          /\ pc[p] = "Schedule" /\ err[p] = NoError
          /\ pc[q] = "Schedule" /\ err[q] = NoError
          /\ req[p].TimeRange = req[q].TimeRange
          /\ \E i \in 1 .. Len(req[p].ParticipantIDs), j \in 1 .. Len(req[q].ParticipantIDs) :
                req[p].ParticipantIDs[i] = req[q].ParticipantIDs[j] )
        => /\ slot[p].End < slot[q].Start \/ slot[q].End < slot[p].Start
           /\ NoConflicts(CreatedBy(p) \cup CreatedBy(q))

----------------------------------------------------------------------------
(* Claims about the gap and buffer scores, under SpecScore *)

RECURSIVE Power(_, _)
Power(b, n) == IF n = 0 THEN 1 ELSE b * Power(b, n - 1)

\* the sum of f[u] over the participants in U
RECURSIVE RSum(_, _)
RSum(f, U) ==
    IF U = {} THEN <<0, 1>>
    ELSE LET u == CHOOSE x \in U : TRUE IN RAdd(f[u], RSum(f, U \ {u}))

\* the gaps, in minutes, between the slot and the busy intervals of a
\* participant that end before the slot starts or start after it ends, as a
\* function of the interval's index
GapsOf(userEvents, s) ==
    [i \in { k \in 1 .. Len(userEvents) :
                userEvents[k].EndTime < s.Start \/ userEvents[k].StartTime > s.End } |->
        IF userEvents[i].EndTime < s.Start
        THEN s.Start - userEvents[i].EndTime
        ELSE userEvents[i].StartTime - s.End]

\* the per-participant gap factor of the specification: 0.5 for every gap
\* below 15 minutes, 0.8 for every gap above 60 minutes
GapFactorOf(userEvents, s) ==
    LET gaps == GapsOf(userEvents, s)
        small == Cardinality({ i \in DOMAIN gaps : gaps[i] < 15 })
        large == Cardinality({ i \in DOMAIN gaps : gaps[i] > 60 })
    IN  Rat(Power(4, large), Power(2, small) * Power(5, large))

\* C21: gapMinimizationScore is the average over the participants of a factor
\* that starts at 1 and is multiplied, for every busy interval of the
\* participant that ends before the slot starts or starts after it ends, by
\* 0.5 when the gap is below 15 minutes and by 0.8 when it is above 60
\* minutes; it is 1.0 without participants and always lies in (0, 1].
C21_GapMinimizationAverage ==
    pc = "scored" =>
        LET U == DOMAIN allEvents
            factor == [u \in U |-> GapFactorOf(allEvents[u], slot)]
        IN  /\ U = {} => scores.gapMinimization = <<1, 1>>
            /\ U # {} => scores.gapMinimization = RDivInt(RSum(factor, U), Cardinality(U))
            /\ scores.gapMinimization[1] > 0
            /\ scores.gapMinimization[1] <= scores.gapMinimization[2]

\* a participant with a meeting two hours before the slot and one a minute
\* after it has been given 0.8 * 0.5, or a participant whose only meeting
\* ends exactly 60 minutes before the slot has been given 1.0
C21_Witness ==
    /\ pc = "scored"
    /\ \/ /\ allEvents = TwoMeetings
          /\ slot.Start = At(11, 59) /\ slot.End = At(12, 59)
          /\ scores.gapMinimization = <<2, 5>>
       \/ /\ DOMAIN allEvents = {"user1"}
          /\ Len(allEvents["user1"]) = 1
          /\ slot.Start - allEvents["user1"][1].EndTime = 60
          /\ scores.gapMinimization = <<1, 1>>

\* the product of f[i] over the indices in I
RECURSIVE RProd(_, _)
RProd(f, I) ==
    IF I = {} THEN <<1, 1>>
    ELSE LET i == CHOOSE x \in I : TRUE IN RMul(f[i], RProd(f, I \ {i}))

\* how far, in minutes, a busy interval is from the slot: the gap between the
\* two when the interval lies before or after the slot (0 when they touch),
\* and 0 when they overlap
Away(event, s) ==
    IF event.EndTime <= s.Start THEN s.Start - event.EndTime
    ELSE IF event.StartTime >= s.End THEN event.StartTime - s.End
    ELSE 0

\* the per-participant buffer factor of the specification: gap / 15 for every
\* busy interval before or after the slot with a gap below 15 minutes, a gap
\* of 0 minutes driving the factor to 0
BufferFactorOf(userEvents, s) ==
    LET near == { i \in 1 .. Len(userEvents) :
                    /\ userEvents[i].EndTime <= s.Start \/ userEvents[i].StartTime >= s.End
                    /\ Away(userEvents[i], s) < 15 }
    IN  RProd([i \in near |-> Rat(Away(userEvents[i], s), 15)], near)

\* C22: bufferTimeScore is the average over the participants of a factor that
\* starts at 1 and is multiplied by gap / 15 for every busy interval of the
\* participant whose gap to the slot, before or after it, is below 15
\* minutes; it is 1.0 without participants, lies in [0, 1], and is 1.0
\* exactly when every busy interval of every participant is at least 15
\* minutes away from the slot.
C22_BufferTimeAverage ==
    pc = "scored" =>
        LET U == DOMAIN allEvents
            factor == [u \in U |-> BufferFactorOf(allEvents[u], slot)]
        IN  /\ U = {} => scores.bufferTime = <<1, 1>>
            /\ U # {} => scores.bufferTime = RDivInt(RSum(factor, U), Cardinality(U))
            /\ scores.bufferTime[1] >= 0
            /\ scores.bufferTime[1] <= scores.bufferTime[2]
            /\ (scores.bufferTime = <<1, 1>>) <=>
                  (\A b \in AllBusy(allEvents) : Away(b, slot) >= 15)

\* a participant whose only meeting starts 10 minutes after the slot has been
\* given 10 / 15, or one whose only meeting starts exactly 15 minutes after
\* the slot has been given 1.0
C22_Witness ==
    /\ pc = "scored"
    /\ DOMAIN allEvents = {"user1"}
    /\ Len(allEvents["user1"]) = 1
    /\ \/ /\ allEvents["user1"][1].StartTime - slot.End = 10
          /\ scores.bufferTime = <<2, 3>>
       \/ /\ allEvents["user1"][1].StartTime - slot.End = 15
          /\ scores.bufferTime = <<1, 1>>

====
